---- MODULE Spec2Model ----
(***************************************************************************)
(* Model of the URL shortener of src/main.go: three HTTP handlers           *)
(* (homeHandler, shortenHandler, redirectHandler) run by concurrent         *)
(* request workers, serialized by the process-wide mutex mu, over the       *)
(* in-memory map shortURLs (fast tier) and the MongoDB collection           *)
(* "urls" (durable tier).                                                   *)
(*                                                                          *)
(* A handler is split only where it can block: at mu.Lock() and at the      *)
(* MongoDB call (InsertOne / FindOne).  The deferred mu.Unlock() is part    *)
(* of the step that returns from the handler.                               *)
(*                                                                          *)
(* A short code is a sequence of one-character strings.  A response is      *)
(* recorded by the arguments of the call that writes it: the status and,    *)
(* for http.Redirect, the url argument (target).                            *)
(***************************************************************************)
EXTENDS Integers, Sequences, FiniteSets, TLC

\* ---- bounds of the model ------------------------------------------------
\* number of concurrent request workers the HTTP layer runs
NumWorkers == 2
\* number of distinct outcomes of the random source the model draws from
MaxSamples == 2
\* cap on the creates of one process lifetime and on the documents stored
MaxCreates == 2
\* cap on the process restarts
MaxRestarts == 1
\* largest step between successive values of the random source, for the
\* generator taken alone
MaxStride == 2

\* ---- program constants --------------------------------------------------
StatusOK == 200
StatusSeeOther == 303
StatusBadRequest == 400
StatusNotFound == 404
StatusInternalServerError == 500

\* const charset in generateShortCode
charset ==
    <<"a", "b", "c", "d", "e", "f", "g", "h", "i", "j", "k", "l", "m", "n",
    "o", "p", "q", "r", "s", "t", "u", "v", "w", "x", "y", "z", "A", "B",
    "C", "D", "E", "F", "G", "H", "I", "J", "K", "L", "M", "N", "O", "P",
    "Q", "R", "S", "T", "U", "V", "W", "X", "Y", "Z", "0", "1", "2", "3",
    "4", "5", "6", "7", "8", "9">>

\* codeLength := 6 in generateShortCode
codeLength == 6

Workers == 1 .. NumWorkers

\* values of the form field "url": empty, and two distinct non-empty urls
Urls == {"", "http://a", "http://b"}

\* One outcome of the codeLength successive rand.Intn(len(charset)) calls of
\* one generateShortCode call.  The seed is the wall clock, so any sequence
\* can come out; the model draws from the first MaxSamples of this family
\* (sample 0 is "aaaaaa", sample 1 "ABCDEF", sample 2 "02468a", ...).
Sample(k) == [i \in 1 .. codeLength |-> (k * (i + 25)) % Len(charset)]

Samples == {Sample(k) : k \in 0 .. (MaxSamples - 1)}

\* faulty variant of generateShortCode: the loop stops one byte early
generateShortCodeShort(draws) ==
    [i \in 1 .. (codeLength - 1) |-> charset[draws[i] + 1]]

\* generateShortCode, given the values rand.Intn returns in the loop
generateShortCode(draws) == [i \in 1 .. codeLength |-> charset[draws[i] + 1]]

\* r.URL.Path[1:] of the requests the model sends: every code the generator
\* can produce in the model, and one it cannot
ReqCodes == {generateShortCode(d) : d \in Samples} \cup {<<"n", "o", "p", "e">>}

NoCode == << >>

\* the map shortURLs = make(map[string]string)
EmptyMap == [k \in {} |-> ""]

\* faulty variant of MapHas: the map read never reports the key
MapHasNever(m, k) == FALSE

\* ok-test of the map read  originalURL, ok := shortURLs[shortCode]
MapHas(m, k) == k \in DOMAIN m

\* faulty variant of MapStore: an existing entry is not overwritten
MapStoreIfAbsent(m, k, v) ==
    [x \in (DOMAIN m) \cup {k} |-> IF x \in DOMAIN m THEN m[x] ELSE v]

\* faulty variant of MapStore: the write is lost
MapStoreDropped(m, k, v) == m

\* faulty variant of MapStore: the write replaces the whole map
MapStoreOnly(m, k, v) == [x \in {k} |-> v]

\* the map write  shortURLs[shortCode] = url
MapStore(m, k, v) == [x \in (DOMAIN m) \cup {k} |-> IF x = k THEN v ELSE m[x]]

\* faulty variant of URLMapping: the code field is left at its zero value
URLMappingNoCode(c, u) == [code |-> NoCode, url |-> u]

\* the struct URLMapping
URLMapping(c, u) == [code |-> c, url |-> u]

\* faulty variant of Matches: the filter is ignored
MatchesAll(coll, c) == 1 .. Len(coll)

\* positions of the documents of coll that match the filter {code: c}
Matches(coll, c) == {i \in 1 .. Len(coll) : coll[i].code = c}

Min(S) == CHOOSE x \in S : \A y \in S : x <= y

\* faulty variant of FindOne: the newest document of the collection
FindOneNewest(coll, c) == coll[Len(coll)]

\* collection.FindOne(ctx, bson.M{"code": c}) on a reachable server: the
\* first matching document in insertion order
FindOne(coll, c) == coll[Min(Matches(coll, c))]

\* faulty variant of CanLock: Lock() returns at once
CanLockAlways(m) == TRUE

\* sync.Mutex: Lock() returns only when the mutex is unlocked
CanLock(m) == m = FALSE

\* faulty variant of IsEmpty: the test is missing
IsEmptyNever(u) == FALSE

\* the test  url == ""  of shortenHandler
IsEmpty(u) == u = ""

\* the handlers main() registers:  "/" homeHandler, "/shorten"
\* shortenHandler, "/{code}" redirectHandler
Handlers == {"home", "shorten", "redirect"}

\* a response: the status, the url argument of http.Redirect (target), and
\* the mappings the page written by tpl.Execute lists (body)
Response(st, t, b) == [status |-> st, target |-> t, body |-> b]

\* a finished request: the handler, the url it was given (shorten), the code
\* it was about (generated by shorten, asked of redirect), the response
\* written and what the MongoDB call of the handler did (db): "none" when
\* no call was made, "ok" for a nil error, "nodoc" for ErrNoDocuments, "err"
\* for any other error
NoOp == [kind |-> "none", url |-> "", code |-> NoCode, status |-> 0,
         target |-> "", body |-> EmptyMap, db |-> "none"]

Finished(k, u, c, resp, d) ==
    [kind |-> k, url |-> u, code |-> c, status |-> resp.status,
     target |-> resp.target, body |-> resp.body, db |-> d]

\* the result (url, err) of findInMongoDB, err given as the db field of the
\* finished request; failed says that FindOne failed for another reason than
\* the absence of a matching document
findInMongoDB(coll, c, failed) ==
    IF failed THEN [url |-> "", db |-> "err"]
    ELSE IF Matches(coll, c) = {} THEN [url |-> "", db |-> "nodoc"]
    ELSE [url |-> FindOne(coll, c).url, db |-> "ok"]

\* faulty variant of resolve: the error of findInMongoDB is not tested and
\* the document is read once more
resolveRetry(m, coll, c, failed) ==
    IF MapHas(m, c)
    THEN [resp |-> Response(StatusSeeOther, m[c], EmptyMap), db |-> "none"]
    ELSE LET res == findInMongoDB(coll, c, failed)
             again == findInMongoDB(coll, c, FALSE)
         IN  IF again.url # ""
             THEN [resp |-> Response(StatusSeeOther, again.url, EmptyMap),
                   db |-> res.db]
             ELSE [resp |-> Response(StatusNotFound, "", EmptyMap), db |-> res.db]

\* redirectHandler as a function of the two tiers: the response to a request
\* for code c and the MongoDB call made, when a FindOne that is issued fails
\* or not
resolve(m, coll, c, failed) ==
    IF MapHas(m, c)
    THEN [resp |-> Response(StatusSeeOther, m[c], EmptyMap), db |-> "none"]
    ELSE LET res == findInMongoDB(coll, c, failed)
         IN  IF res.db = "ok" /\ res.url # ""
             THEN [resp |-> Response(StatusSeeOther, res.url, EmptyMap), db |-> res.db]
             ELSE [resp |-> Response(StatusNotFound, "", EmptyMap), db |-> res.db]

\* faulty variant of cacheAfterFind: a url found in the collection is copied
\* into the map
cacheAfterFindPromote(m, c, r) ==
    IF r.resp.status = StatusSeeOther THEN MapStore(m, c, r.resp.target) ELSE m

\* the map when redirectHandler returns after findInMongoDB with the outcome
\* r for code c: the handler has no map write on this path
cacheAfterFind(m, c, r) == m

VARIABLES
    mu,          \* the mutex mu: TRUE when locked
    shortURLs,   \* the map shortURLs (fast tier)
    collection,  \* the documents of the MongoDB collection, oldest first
    rng,         \* number of values drawn from the random source since rand.Seed
    pc,          \* where each worker is in its handler
    handler,     \* the handler each worker is running
    url,         \* the local url of shortenHandler, per worker
    shortCode,   \* the local shortCode of shortenHandler and redirectHandler
    boots,       \* number of restarts of the process so far
    creates,     \* history: the creates of this process that generated a code
    persisted,   \* history: the creates of earlier processes that reported success
    last,        \* history: the request that finished most recently in this process
    prev,        \* history: the request that finished before last
    genDraws,    \* generator alone: the values rand.Intn returns to one call
    genCode      \* generator alone: the string generateShortCode returned

\* the variables of the generator taken alone
genVars == <<genDraws, genCode>>

\* the variables of the server
serverVars == <<mu, shortURLs, collection, rng, pc, handler, url, shortCode,
                boots, creates, persisted, last, prev>>

vars == <<serverVars, genVars>>

\* positions inside the critical section of a handler
InCS == {"body", "insert", "find"}

\* the values the form field "url" can have: the model stops sending
\* non-empty urls when the bound on creates is reached
FormValues ==
    IF rng + codeLength <= codeLength * MaxCreates /\ Len(collection) < MaxCreates
    THEN Urls
    ELSE {""}

InitServer ==
    /\ mu = FALSE
    /\ shortURLs = EmptyMap
    /\ collection = << >>
    /\ rng = 0
    /\ pc = [w \in Workers |-> "idle"]
    /\ handler = [w \in Workers |-> "none"]
    /\ url = [w \in Workers |-> ""]
    /\ shortCode = [w \in Workers |-> NoCode]
    /\ boots = 0
    /\ creates = {}
    /\ persisted = {}
    /\ last = NoOp
    /\ prev = NoOp

\* the server after main() has started; no generator call is looked at alone
Init ==
    /\ InitServer
    /\ genDraws = << >>
    /\ genCode = NoCode

\* faulty variant of Return: the handler returns without mu.Unlock()
ReturnNoUnlock(w, fin) ==
    /\ mu' = mu
    /\ pc' = [pc EXCEPT ![w] = "idle"]
    /\ handler' = [handler EXCEPT ![w] = "none"]
    /\ url' = [url EXCEPT ![w] = ""]
    /\ shortCode' = [shortCode EXCEPT ![w] = NoCode]
    /\ prev' = last
    /\ last' = fin

\* the handler of worker w returns: deferred mu.Unlock(), response recorded
Return(w, fin) ==
    /\ mu' = FALSE
    /\ pc' = [pc EXCEPT ![w] = "idle"]
    /\ handler' = [handler EXCEPT ![w] = "none"]
    /\ url' = [url EXCEPT ![w] = ""]
    /\ shortCode' = [shortCode EXCEPT ![w] = NoCode]
    /\ prev' = last
    /\ last' = fin

\* the HTTP server hands a request to a worker, which calls the handler
\* registered for its path and reaches mu.Lock()
Receive(w) ==
    /\ pc[w] = "idle"
    /\ \E h \in Handlers : handler' = [handler EXCEPT ![w] = h]
    /\ pc' = [pc EXCEPT ![w] = "lock"]
    /\ UNCHANGED <<mu, shortURLs, collection, rng, url, shortCode, boots,
                   creates, persisted, last, prev>>
    /\ UNCHANGED genVars

\* mu.Lock() returns
Lock(w) ==
    /\ pc[w] = "lock"
    /\ CanLock(mu)
    /\ mu' = TRUE
    /\ pc' = [pc EXCEPT ![w] = "body"]
    /\ UNCHANGED <<shortURLs, collection, rng, handler, url, shortCode, boots,
                   creates, persisted, last, prev>>
    /\ UNCHANGED genVars

\* homeHandler after mu.Lock(): tpl.Execute renders shortURLs, or fails
homeHandler(w) ==
    /\ pc[w] = "body"
    /\ handler[w] = "home"
    /\ \/ Return(w, Finished("home", "", NoCode,
                           Response(StatusOK, "", shortURLs), "none"))
       \/ Return(w, Finished("home", "", NoCode,
                           Response(StatusInternalServerError, "", EmptyMap), "none"))
    /\ UNCHANGED <<shortURLs, collection, rng, boots, creates, persisted>>
    /\ UNCHANGED genVars

\* shortenHandler from r.FormValue("url") to the call of InsertOne
shortenHandler(w) ==
    /\ pc[w] = "body"
    /\ handler[w] = "shorten"
    /\ \E u \in FormValues :
        IF IsEmpty(u)
        THEN /\ Return(w, Finished("shorten", u, NoCode,
                                  Response(StatusBadRequest, "", EmptyMap), "none"))
             /\ UNCHANGED <<shortURLs, rng>>
        ELSE /\ \E d \in Samples :
                  /\ shortCode' = [shortCode EXCEPT ![w] = generateShortCode(d)]
                  /\ shortURLs' = MapStore(shortURLs, generateShortCode(d), u)
             /\ rng' = rng + codeLength
             /\ url' = [url EXCEPT ![w] = u]
             /\ pc' = [pc EXCEPT ![w] = "insert"]
             /\ UNCHANGED <<mu, handler, last, prev>>
    /\ UNCHANGED <<collection, boots, creates, persisted>>
    /\ UNCHANGED genVars

\* saveToMongoDB: InsertOne returns, and shortenHandler to its end
saveToMongoDB(w) ==
    /\ pc[w] = "insert"
    /\ \E ok \in BOOLEAN :
        /\ collection' = IF ok
                         THEN Append(collection, URLMapping(shortCode[w], url[w]))
                         ELSE collection
        /\ creates' = creates \cup {[code |-> shortCode[w], url |-> url[w], ok |-> ok]}
        /\ Return(w, IF ok
                     THEN Finished("shorten", url[w], shortCode[w],
                                   Response(StatusSeeOther, "/", EmptyMap), "ok")
                     ELSE Finished("shorten", url[w], shortCode[w],
                                   Response(StatusInternalServerError, "", EmptyMap),
                                   "err"))
    /\ UNCHANGED <<shortURLs, rng, boots, persisted>>
    /\ UNCHANGED genVars

\* redirectHandler from r.URL.Path[1:] to the call of FindOne
redirectHandler(w) ==
    /\ pc[w] = "body"
    /\ handler[w] = "redirect"
    /\ \E c \in ReqCodes :
        IF MapHas(shortURLs, c)
        THEN LET r == resolve(shortURLs, collection, c, FALSE)
             IN  Return(w, Finished("redirect", "", c, r.resp, r.db))
        ELSE /\ shortCode' = [shortCode EXCEPT ![w] = c]
             /\ pc' = [pc EXCEPT ![w] = "find"]
             /\ UNCHANGED <<mu, handler, url, last, prev>>
    /\ UNCHANGED <<shortURLs, collection, rng, boots, creates, persisted>>
    /\ UNCHANGED genVars

\* findInMongoDB returns, and redirectHandler to its end
redirectAfterFind(w) ==
    /\ pc[w] = "find"
    /\ \E failed \in BOOLEAN :
        LET r == resolve(shortURLs, collection, shortCode[w], failed)
        IN  /\ Return(w, Finished("redirect", "", shortCode[w], r.resp, r.db))
            /\ shortURLs' = cacheAfterFind(shortURLs, shortCode[w], r)
    /\ UNCHANGED <<collection, rng, boots, creates, persisted>>
    /\ UNCHANGED genVars

\* The process dies and main() runs again: the globals are initialized
\* afresh, rand.Seed reseeds, every request in flight is lost (an InsertOne
\* in flight with it); the collection is kept.
Restart ==
    /\ boots < MaxRestarts
    /\ boots' = boots + 1
    /\ mu' = FALSE
    /\ shortURLs' = EmptyMap
    /\ rng' = 0
    /\ pc' = [w \in Workers |-> "idle"]
    /\ handler' = [w \in Workers |-> "none"]
    /\ url' = [w \in Workers |-> ""]
    /\ shortCode' = [w \in Workers |-> NoCode]
    /\ last' = NoOp
    /\ prev' = NoOp
    /\ persisted' = persisted \cup {x \in creates : x.ok}
    /\ creates' = {}
    /\ UNCHANGED collection
    /\ UNCHANGED genVars

Next ==
    \/ \E w \in Workers : Receive(w)
    \/ \E w \in Workers : Lock(w)
    \/ \E w \in Workers : homeHandler(w)
    \/ \E w \in Workers : shortenHandler(w)
    \/ \E w \in Workers : saveToMongoDB(w)
    \/ \E w \in Workers : redirectHandler(w)
    \/ \E w \in Workers : redirectAfterFind(w)
    \/ Restart

Spec == Init /\ [][Next]_vars

\* ---- one process under fair scheduling -----------------------------------
\* The steps of one process: every step of Next but Restart.
NextLive ==
    \/ \E w \in Workers : Receive(w)
    \/ \E w \in Workers : Lock(w)
    \/ \E w \in Workers : homeHandler(w)
    \/ \E w \in Workers : shortenHandler(w)
    \/ \E w \in Workers : saveToMongoDB(w)
    \/ \E w \in Workers : redirectHandler(w)
    \/ \E w \in Workers : redirectAfterFind(w)

\* The Go scheduler runs every runnable goroutine, so a handler that holds
\* mu goes on; a goroutine blocked in mu.Lock() is not passed over forever,
\* since sync.Mutex hands the mutex to a waiter that has waited long
\* (starvation mode); and every InsertOne and FindOne is taken to return.
Fairness ==
    \A w \in Workers :
        /\ SF_vars(Lock(w))
        /\ WF_vars(homeHandler(w))
        /\ WF_vars(shortenHandler(w))
        /\ WF_vars(saveToMongoDB(w))
        /\ WF_vars(redirectHandler(w))
        /\ WF_vars(redirectAfterFind(w))

SpecLive == Init /\ [][NextLive]_vars /\ Fairness

\* ---- the generator taken alone -------------------------------------------
\* The outcomes of the codeLength calls rand.Intn(len(charset)) of one
\* generateShortCode call: every value 0 .. len(charset)-1 occurs at every
\* position, followed by values MaxStride or less apart (modulo len(charset)).
RandDraws ==
    {[i \in 1 .. codeLength |-> (b + (i - 1) * s) % Len(charset)] :
        b \in 0 .. (Len(charset) - 1), s \in 0 .. MaxStride}

InitGen ==
    /\ InitServer
    /\ genDraws \in RandDraws
    /\ genCode = NoCode

\* one call of generateShortCode with the values genDraws
Generate ==
    /\ genCode = NoCode
    /\ genCode' = generateShortCode(genDraws)
    /\ UNCHANGED <<serverVars, genDraws>>

NextGen == Generate

SpecGen == InitGen /\ [][NextGen]_vars

\* =========================================================================
\* Properties
\* =========================================================================

\* no create has written the fast tier without having returned yet
Quiet == \A w \in Workers : pc[w] # "insert"

\* no shorten request is in progress
NoCreateInProgress == \A w \in Workers : handler[w] # "shorten"

\* the creates of this process and the successful ones of earlier processes
AllCreates == {[code |-> x.code, url |-> x.url] : x \in creates \cup persisted}

\* the urls given to the creates that generated code c
UrlsGivenFor(c) == {x.url : x \in {y \in AllCreates : y.code = c}}

\* the urls given to the creates of this process that generated code c
UrlsOfCreates(c) == {x.url : x \in {y \in creates : y.code = c}}

\* ---- C1 -----------------------------------------------------------------
\* C1: round trip.  When a create of a non-empty url U has returned success
\* and the request that finishes next is a resolve of the code that create
\* generated, the resolve answers with a redirect to U, not with NotFound.
C1_RoundTrip ==
    (/\ prev.kind = "shorten" /\ prev.status = StatusSeeOther
     /\ last.kind = "redirect" /\ last.code = prev.code)
    => (/\ prev.url # ""
        /\ last.status = StatusSeeOther
        /\ last.target = prev.url)

\* a resolve finished right after the successful create of its code, which
\* had overwritten the entry of an earlier create of the same code
C1_Witness ==
    /\ prev.kind = "shorten" /\ prev.status = StatusSeeOther
    /\ last.kind = "redirect" /\ last.code = prev.code
    /\ last.target = prev.url
    /\ \E x \in creates : x.code = prev.code /\ x.url # prev.url

\* ---- C2 -----------------------------------------------------------------
\* C2 as stated: after a restart, a resolve whose find does not fail
\* answers, for every code whose create reported success before the restart,
\* with a redirect to the url given to that create.
C2_Original ==
    (last.kind = "redirect" /\ last.db # "err")
    => \A x \in persisted :
          x.code = last.code
          => (last.status = StatusSeeOther /\ last.target = x.url)

\* C2 amended: after a restart, a resolve whose find does not fail answers,
\* for every code whose create reported success before the restart, with a
\* redirect and never with NotFound; the redirect goes to a url given to a
\* create that generated that code, hence to the url given to that create
\* whenever no create with another url generated the same code.
C2_Durable ==
    (last.kind = "redirect" /\ last.db # "err")
    => \A x \in persisted :
          x.code = last.code
          => (/\ last.status = StatusSeeOther
              /\ last.target \in UrlsGivenFor(x.code)
              /\ (UrlsGivenFor(x.code) = {x.url} => last.target = x.url))

\* after a restart, a resolve found in the collection the url of a create of
\* the earlier process, the fast tier having no entry for the code
C2_Witness ==
    /\ boots > 0
    /\ last.kind = "redirect" /\ last.db = "ok"
    /\ last.status = StatusSeeOther
    /\ last.code \notin DOMAIN shortURLs
    /\ Len(collection) > 1
    /\ \E x \in persisted : x.code = last.code /\ x.url = last.target

\* ---- C3 -----------------------------------------------------------------
\* C3: empty rejection.  A step of shortenHandler from the read of the form
\* value either goes on to InsertOne with a non-empty url, or returns with
\* status 400 for the empty url, without a code, without having drawn from
\* the random source and with both tiers as they were.
C3_EmptyRejection ==
    [][\A w \in Workers :
         (/\ pc[w] = "body" /\ handler[w] = "shorten"
          /\ pc'[w] # "body" /\ boots' = boots)
         => IF pc'[w] = "insert"
            THEN url'[w] # ""
            ELSE /\ last'.kind = "shorten" /\ last'.url = ""
                 /\ last'.status = StatusBadRequest
                 /\ last'.code = NoCode /\ last'.db = "none"
                 /\ rng' = rng
                 /\ shortURLs' = shortURLs
                 /\ collection' = collection]_vars

\* an empty url was rejected while both tiers held mappings
C3_Witness ==
    /\ last.kind = "shorten" /\ last.url = ""
    /\ last.status = StatusBadRequest
    /\ DOMAIN shortURLs # {}
    /\ Len(collection) > 0
    /\ rng > 0

\* ---- C4 -----------------------------------------------------------------
\* C4 as stated: after a create whose InsertOne failed, every later resolve
\* of its code in the same process answers with a redirect to the url of
\* that create.
C4_Original ==
    \A x \in creates :
       (~x.ok /\ last.kind = "redirect" /\ last.code = x.code)
       => (last.status = StatusSeeOther /\ last.target = x.url)

\* C4 amended: when the InsertOne of a create fails, the create answers with
\* status 500, the fast-tier entry of its code is not removed, and every
\* later resolve of that code in the same process answers from the fast
\* tier, without a find, with a redirect to a url given to a create of this
\* process that generated that code: to the url of the failed create until a
\* later create generates the same code with another url.  The collection
\* holds a document for the code only if a create that generated it succeeded.
C4_FailedInsert ==
    /\ (last.kind = "shorten" /\ last.db = "err")
       => (last.status = StatusInternalServerError /\ last.url # "")
    /\ \A x \in creates :
         ~x.ok =>
           /\ x.code \in DOMAIN shortURLs
           /\ (last.kind = "redirect" /\ last.code = x.code)
              => (/\ last.status = StatusSeeOther
                  /\ last.db = "none"
                  /\ last.target \in UrlsOfCreates(x.code)
                  /\ (UrlsOfCreates(x.code) = {x.url} => last.target = x.url))
           /\ (\A y \in creates \cup persisted : y.ok => y.code # x.code)
              => Matches(collection, x.code) = {}

\* a resolve was answered from the fast tier with the url of a create whose
\* InsertOne had failed, the collection holding no document for the code
C4_Witness ==
    /\ last.kind = "redirect" /\ last.status = StatusSeeOther
    /\ Matches(collection, last.code) = {}
    /\ \E x \in creates : ~x.ok /\ x.code = last.code /\ x.url = last.target

\* ---- C5 -----------------------------------------------------------------
\* C5: fast-tier precedence.  A find is in progress only for a code that the
\* fast tier does not hold; and a resolve of a code the fast tier holds was
\* answered with a redirect to the fast-tier url without a find (stated for
\* the states in which the fast tier is as the resolve saw it).
C5_FastTierFirst ==
    /\ \A w \in Workers : pc[w] = "find" => shortCode[w] \notin DOMAIN shortURLs
    /\ (last.kind = "redirect" /\ Quiet /\ last.code \in DOMAIN shortURLs)
       => (/\ last.db = "none"
           /\ last.status = StatusSeeOther
           /\ last.target = shortURLs[last.code])

\* a resolve was answered from the fast tier for a code the collection has
\* no document for, and for which a find would have answered otherwise
C5_Witness ==
    /\ last.kind = "redirect" /\ last.db = "none"
    /\ last.status = StatusSeeOther
    /\ last.code \in DOMAIN shortURLs
    /\ Matches(collection, last.code) = {}
    /\ Quiet

\* ---- C6 -----------------------------------------------------------------
\* C6: miss.  A resolve of a code that neither the fast tier nor the
\* collection holds was answered with NotFound (404), not with a redirect
\* (stated for the states in which both tiers are as the resolve saw them).
C6_Miss ==
    (/\ last.kind = "redirect" /\ Quiet
     /\ last.code \notin DOMAIN shortURLs
     /\ \A i \in 1 .. Len(collection) : collection[i].code # last.code)
    => (last.status = StatusNotFound /\ last.target = "")

\* a resolve of a code in neither tier was answered with 404 after FindOne
\* reported no document, while both tiers held other mappings
C6_Witness ==
    /\ last.kind = "redirect" /\ last.status = StatusNotFound
    /\ last.db = "nodoc" /\ Quiet
    /\ last.code \notin DOMAIN shortURLs
    /\ DOMAIN shortURLs # {}
    /\ Len(collection) > 0

\* ---- C7 -----------------------------------------------------------------
\* C7: mutual exclusion.  At most one worker is between its mu.Lock() and
\* its return, the mutex is locked exactly when one is, and a worker inside
\* InsertOne or FindOne is that one.
C7_MutualExclusion ==
    /\ Cardinality({w \in Workers : pc[w] \in InCS}) <= 1
    /\ mu = ({w \in Workers : pc[w] \in InCS} # {})
    /\ \A w \in Workers :
         pc[w] \in {"insert", "find"}
         => \A v \in Workers \ {w} : pc[v] \in {"idle", "lock"}

\* a create is inside InsertOne while another request waits at mu.Lock()
C7_Witness ==
    \E w \in Workers, v \in Workers :
        /\ w # v
        /\ pc[w] = "insert"
        /\ pc[v] = "lock" /\ handler[v] \in {"shorten", "redirect"}

\* ---- C8 -----------------------------------------------------------------
\* C8 as stated: once no create is in progress, the code of every create of
\* this process resolves to the url passed to that create.
C8_Original ==
    NoCreateInProgress
    => \A x \in creates : \A failed \in BOOLEAN :
          LET r == resolve(shortURLs, collection, x.code, failed)
          IN  r.resp.status = StatusSeeOther /\ r.resp.target = x.url

\* C8 amended: once no create is in progress, the code of every create of
\* this process is resolvable (a redirect, whatever the durable tier does),
\* and resolves to the url passed to a create that generated that code: to
\* the url passed to its own create whenever no other create generated the
\* same code with another url.
C8_ConcurrentCreates ==
    NoCreateInProgress
    => \A x \in creates : \A failed \in BOOLEAN :
          LET r == resolve(shortURLs, collection, x.code, failed)
          IN  /\ r.resp.status = StatusSeeOther
              /\ r.resp.target \in UrlsOfCreates(x.code)
              /\ (UrlsOfCreates(x.code) = {x.url} => r.resp.target = x.url)

\* two creates with distinct codes and urls have finished one after the
\* other, and each code resolves to its own url
C8_Witness ==
    /\ NoCreateInProgress
    /\ prev.kind = "shorten" /\ last.kind = "shorten"
    /\ prev.code # NoCode /\ last.code # NoCode
    /\ prev.code # last.code /\ prev.url # last.url
    /\ \A x \in creates :
          /\ x.code \in DOMAIN shortURLs
          /\ shortURLs[x.code] = x.url

\* ---- C9 -----------------------------------------------------------------
\* C9 as stated: the fast tier maps the code of every create of this process
\* to the url of that create, in every later state.
C9_Original ==
    \A x \in creates :
       x.code \in DOMAIN shortURLs /\ shortURLs[x.code] = x.url

\* C9 amended: within one process no step removes a fast-tier entry, and a
\* step changes the url of an entry only when it is a create that generated
\* the same code again and wrote its own url.
C9_Immutable ==
    [][boots' = boots
       => \A c \in DOMAIN shortURLs :
            /\ c \in DOMAIN shortURLs'
            /\ shortURLs'[c] # shortURLs[c]
               => \E w \in Workers :
                     /\ pc[w] = "body" /\ handler[w] = "shorten"
                     /\ pc'[w] = "insert"
                     /\ shortCode'[w] = c
                     /\ url'[w] = shortURLs'[c]]_vars

\* two mappings were created, then requests of the three kinds finished, and
\* the fast tier still holds both mappings
C9_Witness ==
    /\ Cardinality(creates) = 2
    /\ Cardinality(DOMAIN shortURLs) = 2
    /\ \A x \in creates : shortURLs[x.code] = x.url
    /\ prev.kind = "home" /\ last.kind = "redirect"

\* ---- C10 ----------------------------------------------------------------
\* C10 as stated: the response of a successful shorten request carries the
\* code that was generated for the request.
C10_Original ==
    (last.kind = "shorten" /\ last.status = StatusSeeOther)
    => last.code \in DOMAIN last.body

\* C10 amended: a successful shorten request is answered with a redirect
\* (303) to "/" that carries no code; the generated code, of codeLength
\* characters, is in the fast tier, with the url of the request as long as no
\* later create has written the same code, so that the page at "/" lists it.
C10_SuccessResponse ==
    (last.kind = "shorten" /\ last.status = StatusSeeOther)
    => (/\ last.target = "/"
        /\ DOMAIN last.body = {}
        /\ last.db = "ok"
        /\ Len(last.code) = codeLength
        /\ last.code \in DOMAIN shortURLs
        /\ Quiet => shortURLs[last.code] = last.url)

\* a shorten request has succeeded and the page at "/" has then listed the
\* generated code with the url
C10_Witness ==
    /\ prev.kind = "shorten" /\ prev.status = StatusSeeOther
    /\ prev.target = "/"
    /\ last.kind = "home" /\ last.status = StatusOK
    /\ prev.code \in DOMAIN last.body
    /\ last.body[prev.code] = prev.url

\* ---- C11 ----------------------------------------------------------------
\* C11: shorten outcomes.  A finished shorten request was answered in one of
\* three ways: with status 400 exactly when the url was empty, with status
\* 500 exactly when the url was non-empty and InsertOne failed, and with a
\* redirect to "/" exactly when the url was non-empty and InsertOne succeeded.
C11_ShortenOutcomes ==
    last.kind = "shorten"
    => (/\ last.status \in {StatusBadRequest, StatusInternalServerError,
                            StatusSeeOther}
        /\ last.db \in {"none", "ok", "err"}
        /\ (last.status = StatusBadRequest) = (last.url = "")
        /\ (last.url = "") => (last.db = "none" /\ last.code = NoCode)
        /\ (last.status = StatusInternalServerError)
              = (last.url # "" /\ last.db = "err")
        /\ (last.status = StatusSeeOther /\ last.target = "/")
              = (last.url # "" /\ last.db = "ok")
        /\ (last.status # StatusSeeOther) => last.target = "")

\* the three outcomes have occurred in one process: a create failed in
\* InsertOne, then an empty url was rejected, then a create succeeded
C11_Witness ==
    /\ \E x \in creates : ~x.ok
    /\ prev.kind = "shorten" /\ prev.status = StatusBadRequest
    /\ last.kind = "shorten" /\ last.status = StatusSeeOther
    /\ last.target = "/"

\* ---- C12 ----------------------------------------------------------------
\* the 62-symbol alphabet a-z, A-Z, 0-9
Lowercase == {"a", "b", "c", "d", "e", "f", "g", "h", "i", "j", "k", "l", "m",
              "n", "o", "p", "q", "r", "s", "t", "u", "v", "w", "x", "y", "z"}

Uppercase == {"A", "B", "C", "D", "E", "F", "G", "H", "I", "J", "K", "L", "M",
              "N", "O", "P", "Q", "R", "S", "T", "U", "V", "W", "X", "Y", "Z"}

Digits == {"0", "1", "2", "3", "4", "5", "6", "7", "8", "9"}

Alphabet == Lowercase \cup Uppercase \cup Digits

\* C12: generator shape.  Whatever values the random source returns, the
\* code generateShortCode returns has length exactly 6 and each of its
\* characters is one of the 62 symbols a-z, A-Z, 0-9.
C12_GeneratorShape ==
    /\ Cardinality(Alphabet) = 62
    /\ genCode # NoCode
       => (/\ DOMAIN genCode = 1 .. 6
           /\ \A i \in DOMAIN genCode : genCode[i] \in Alphabet)

\* a code was generated from draws that wrap around the end of the charset:
\* the last digit, then the first lowercase letter
C12_Witness ==
    /\ genCode # NoCode
    /\ genDraws[1] = 61 /\ genDraws[2] = 0 /\ genDraws[6] = 4
    /\ genCode[1] = "9" /\ genCode[2] = "a" /\ genCode[6] = "e"

\* ---- C13 ----------------------------------------------------------------
\* C13: resolve is read-only.  No step of redirectHandler, whether it hits
\* the fast tier, goes on to FindOne, or returns after FindOne with a hit, a
\* miss or an error, changes the map or the collection; after a hit in the
\* collection the code is still absent from the map.
C13_ResolveReadOnly ==
    [][\A w \in Workers :
         (/\ handler[w] = "redirect" /\ pc[w] \in {"body", "find"}
          /\ pc'[w] # pc[w] /\ boots' = boots)
         => (/\ shortURLs' = shortURLs
             /\ collection' = collection
             /\ pc[w] = "find" => shortCode[w] \notin DOMAIN shortURLs')]_vars

\* the same cold code was resolved twice in a row, and both times the url
\* came from the collection; the map still does not hold the code
C13_Witness ==
    /\ prev.kind = "redirect" /\ prev.db = "ok" /\ prev.status = StatusSeeOther
    /\ last.kind = "redirect" /\ last.db = "ok" /\ last.status = StatusSeeOther
    /\ last.code = prev.code
    /\ last.code \notin DOMAIN shortURLs

\* ---- C14 ----------------------------------------------------------------
\* C14: lookup errors collapse to NotFound.  A resolve whose FindOne
\* reported an error, be it the absence of a document or any other error,
\* was answered with status 404 and no redirect, for a transient error as
\* for an absent code, also when the collection holds a document for the
\* code; and FindOne was called only because the map did not hold the code.
C14_LookupErrorNotFound ==
    (last.kind = "redirect" /\ last.db \in {"err", "nodoc"})
    => (/\ last.status = StatusNotFound
        /\ last.target = ""
        /\ DOMAIN last.body = {}
        /\ Quiet => last.code \notin DOMAIN shortURLs)

\* a resolve was answered with 404 after FindOne failed, although the
\* collection holds a document for the code
C14_Witness ==
    /\ last.kind = "redirect" /\ last.db = "err"
    /\ last.status = StatusNotFound
    /\ last.code \notin DOMAIN shortURLs
    /\ \E i \in 1 .. Len(collection) : collection[i].code = last.code

\* ---- C15 ----------------------------------------------------------------
\* C15: cache-only entries come only from failed persistence.  When no
\* create is in progress, every code that the map holds and for which the
\* collection has no document was written, with the url the map holds, by a
\* create of this process whose InsertOne failed.
C15_CacheOnlyFromFailure ==
    NoCreateInProgress
    => \A c \in DOMAIN shortURLs :
          (\A i \in 1 .. Len(collection) : collection[i].code # c)
          => \E x \in creates :
                ~x.ok /\ x.code = c /\ x.url = shortURLs[c]

\* no create is in progress and the map holds two codes: one without a
\* document, from a create whose InsertOne failed, and one with a document
C15_Witness ==
    /\ NoCreateInProgress
    /\ \E c \in DOMAIN shortURLs :
          /\ \A i \in 1 .. Len(collection) : collection[i].code # c
          /\ \E x \in creates : ~x.ok /\ x.code = c
    /\ \E c \in DOMAIN shortURLs :
          \E i \in 1 .. Len(collection) : collection[i].code = c

\* ---- C16 ----------------------------------------------------------------
\* C16: stall propagation.  For as long as the InsertOne or FindOne of the
\* worker that holds mu has not returned, the mutex stays locked, no other
\* worker gets past its mu.Lock(), and no request finishes: nothing but the
\* return of that call frees the lock.
C16_StallPropagation ==
    [][\A w \in Workers :
         (pc[w] \in {"insert", "find"} /\ pc'[w] = pc[w])
         => (/\ mu' = TRUE
             /\ last' = last /\ prev' = prev
             /\ \A v \in Workers \ {w} :
                   /\ pc'[v] \in {"idle", "lock"}
                   /\ pc[v] = "lock" => pc'[v] = "lock")]_vars

\* a resolve is inside FindOne and every other worker is blocked in
\* mu.Lock(), one of them for the listing
C16_Witness ==
    \E w \in Workers :
        /\ pc[w] = "find"
        /\ \A v \in Workers \ {w} : pc[v] = "lock"
        /\ \E v \in Workers \ {w} : handler[v] = "home"

\* ---- C17 ----------------------------------------------------------------
\* C17: lock release and progress.  Every step by which a handler returns
\* unlocks mu; and under fair scheduling, every InsertOne and FindOne
\* returning, a request that waits in mu.Lock() eventually has the mutex,
\* and a request that has it eventually returns.
C17_LockReleaseProgress ==
    /\ [][\A w \in Workers :
            (pc[w] \in InCS /\ pc'[w] = "idle") => mu' = FALSE]_vars
    /\ \A w \in Workers : (pc[w] = "lock") ~> (pc[w] \in InCS)
    /\ \A w \in Workers : (pc[w] \in InCS) ~> (pc[w] = "idle")

\* requests have left by each of the exits but one while a worker waited:
\* a failed and a successful create are recorded, the listing and then a
\* resolve have just returned, the mutex is free and a request waits for it
C17_Witness ==
    /\ mu = FALSE
    /\ \E x \in creates : ~x.ok
    /\ \E x \in creates : x.ok
    /\ prev.kind = "home" /\ last.kind = "redirect"
    /\ \E w \in Workers : pc[w] = "lock"

\* ---- C18 ----------------------------------------------------------------
\* C18 as stated: when no create is in progress, for every code that the
\* map holds and the collection has a document for, a resolve gives the same
\* url from the map as it gives from the collection once the map is empty
\* after a restart.
C18_Original ==
    NoCreateInProgress
    => \A c \in DOMAIN shortURLs :
          (\E i \in 1 .. Len(collection) : collection[i].code = c)
          => resolve(shortURLs, collection, c, FALSE).resp
                = resolve(EmptyMap, collection, c, FALSE).resp

\* C18 amended: when no create is in progress, for every code that the map
\* holds and the collection has a document for, a resolve gives a redirect
\* both from the map and, after a restart, from the collection, each to a
\* url given to a create that generated that code; the two urls are equal
\* whenever no create with another url generated the same code.
C18_TierAgreement ==
    NoCreateInProgress
    => \A c \in DOMAIN shortURLs :
          (\E i \in 1 .. Len(collection) : collection[i].code = c)
          => LET before == resolve(shortURLs, collection, c, FALSE).resp
                 after == resolve(EmptyMap, collection, c, FALSE).resp
             IN  /\ before.status = StatusSeeOther
                 /\ after.status = StatusSeeOther
                 /\ before.target \in UrlsOfCreates(c)
                 /\ after.target \in UrlsGivenFor(c)
                 /\ (\E u \in Urls : UrlsGivenFor(c) = {u})
                    => before.target = after.target

\* no create is in progress, the map and the collection hold the same two
\* codes, and each code resolves to the same url from either tier
C18_Witness ==
    /\ NoCreateInProgress
    /\ Cardinality(DOMAIN shortURLs) = 2
    /\ Len(collection) = 2
    /\ \A c \in DOMAIN shortURLs :
          /\ \E i \in 1 .. Len(collection) : collection[i].code = c
          /\ resolve(EmptyMap, collection, c, FALSE).resp.target = shortURLs[c]

\* ---- C19 ----------------------------------------------------------------
\* C19: no empty url is ever stored.  Every entry of the map and every
\* document of the collection has a non-empty url, as has every create that
\* generated a code; so a resolve whose FindOne found a document was
\* answered with a redirect, never with NotFound.
C19_NoEmptyUrlStored ==
    /\ \A c \in DOMAIN shortURLs : shortURLs[c] # ""
    /\ \A i \in 1 .. Len(collection) : collection[i].url # ""
    /\ \A x \in creates \cup persisted : x.url # ""
    /\ \A w \in Workers : pc[w] = "insert" => url[w] # ""
    /\ (last.kind = "redirect" /\ last.db = "ok")
       => (last.status = StatusSeeOther /\ last.target # "")

\* an empty url was rejected while both tiers held mappings, and the next
\* request, a resolve of a cold code, found its document and was redirected
C19_Witness ==
    /\ prev.kind = "shorten" /\ prev.url = "" /\ prev.status = StatusBadRequest
    /\ last.kind = "redirect" /\ last.db = "ok" /\ last.status = StatusSeeOther
    /\ DOMAIN shortURLs # {}
    /\ Len(collection) > 0

====
